---- MODULE Spec2Model ----
(***************************************************************************)
(* A model of the weighted Sokoban solver of mySokobanSolver.py: the taboo *)
(* analysis, the SokobanPuzzle search problem (actions, result, goal_test, *)
(* path_cost) and the action validator check_elem_action_seq.              *)
(*                                                                         *)
(* Cells are tuples <<x, y>> (x the column, y the row, origin top-left).   *)
(* Python strings are sequences of one-character strings, so that          *)
(* rendering a grid to text and reading text back are real conversions.    *)
(* Python lists that the code mutates (warehouse.boxes) live in a heap of  *)
(* named objects, so that copying and aliasing are visible.                *)
(***************************************************************************)
EXTENDS Integers, Sequences, FiniteSets, TLC

VARIABLES
    heap,     \* the caller's objects: the Warehouse and its boxes / weights lists
    puzzle,   \* the SokobanPuzzle built from the warehouse (its attributes)
    node,     \* the search node being expanded: state, path (solution()), path_cost
    call,     \* the last call made to the solver's interface: op, arguments, ret
    pc,       \* where solve_weighted_sokoban stands: start, search, found, done
    frontier, \* the priority queue of astar_graph_search: the nodes it holds
    explored, \* the explored set of astar_graph_search: states
    play      \* worker, boxes and cost after a sequence the validator accepts

vars == <<heap, puzzle, node, call, pc, frontier, explored, play>>

\* What only solve_weighted_sokoban and the play of the game change.
solve_vars == <<pc, frontier, explored, play>>

---------------------------------------------------------------------------
(* Module-level constants of mySokobanSolver.py                            *)

CELL_CHARS == [Empty |-> " ", Taboo |-> "X", Wall |-> "#"]

COST == 1

\* DIRECTIONS.items(), in the dict's insertion order.
DIRECTIONS ==
    << <<"Left", <<-1, 0>> >>, <<"Right", <<1, 0>> >>,
       <<"Up", <<0, -1>> >>, <<"Down", <<0, 1>> >> >>

\* Python's 0-based tuple indexes; a cell's coordinate i is cell[i + 1] here.
INDEXES == [x |-> 0, y |-> 1]

\* STEPS.items(): Negative, Positive.
STEPS == <<-1, 1>>

None == <<>>

---------------------------------------------------------------------------
(* Bounds of the model                                                     *)

\* Longest action path the search exploration follows from the initial state.
MaxPath == 6

\* Longest action sequence handed to check_elem_action_seq directly.
MaxSeq == 4

\* Largest accumulated cost c handed to path_cost directly.
MaxCost == 2

\* The cost of a played sequence is counted up to this value and no further.
MaxPlayCost == 24

\* The games priced against the heuristic cost at most this much.
MaxRunCost == 6

\* The calls made one after another on one fixture are at most this many.
MaxCalls == 2

\* The flood fill may nest its calls this deep; deeper, Python raises
\* RecursionError.
MaxDepth == 32

---------------------------------------------------------------------------
(* Python helpers                                                          *)

Range(s) == {s[i] : i \in DOMAIN s}

\* The direction of an action label: DIRECTIONS[action].
Direction(action) ==
    LET i == CHOOSE j \in DOMAIN DIRECTIONS : DIRECTIONS[j][1] = action
    IN  DIRECTIONS[i][2]

ActionLabels == {DIRECTIONS[i][1] : i \in DOMAIN DIRECTIONS}

\* seq.index(value): the first position holding value (0-based, as in Python).
Index(seq, value) ==
    (CHOOSE i \in DOMAIN seq :
        seq[i] = value /\ \A j \in 1..(i - 1) : seq[j] # value) - 1

RECURSIVE Join(_, _)
\* sep.join(strs) over strings as character sequences.
Join(sep, strs) ==
    IF Len(strs) = 0 THEN <<>>
    ELSE IF Len(strs) = 1 THEN strs[1]
    ELSE strs[1] \o <<sep>> \o Join(sep, Tail(strs))

\* s.split(sep = sep): the pieces of s between the occurrences of sep.
Split(s, sep) ==
    LET cuts == SelectSeq([i \in 1..Len(s) |-> i], LAMBDA i : s[i] = sep)
    IN  [k \in 1..(Len(cuts) + 1) |->
            SubSeq(s, IF k = 1 THEN 1 ELSE cuts[k - 1] + 1,
                      IF k > Len(cuts) THEN Len(s) ELSE cuts[k] - 1)]

RECURSIVE find_2D_from(_, _, _)
find_2D_from(lines, char, y) ==
    IF y >= Len(lines) THEN <<>>
    ELSE LET line == lines[y + 1]
             hits == SelectSeq([i \in 1..Len(line) |-> i], LAMBDA i : line[i] = char)
         IN  [k \in 1..Len(hits) |-> <<hits[k] - 1, y>>]
             \o find_2D_from(lines, char, y + 1)

\* sokoban.find_2D_iterator: the (x, y) of every occurrence of char, row by row.
find_2D_iterator(lines, char) == find_2D_from(lines, char, 0)

Max(S) == CHOOSE m \in S : \A n \in S : n <= m

---------------------------------------------------------------------------
(* The warehouses the model is run on, in the grid text format             *)

\* The scenario grid of the specification: one box, one target.
LinesScenario ==
    << <<"#","#","#","#","#","#","#">>,
       <<"#","."," "," "," "," ","#">>,
       <<"#"," "," ","$"," "," ","#">>,
       <<"#"," "," ","@"," "," ","#">>,
       <<"#","#","#","#","#","#","#">> >>

\* Two boxes of different weights, solvable.
LinesTwoBoxes ==
    << <<"#","#","#","#","#","#">>,
       <<"#","@"," ","$",".","#">>,
       <<"#"," ","$"," "," ","#">>,
       <<"#"," "," ","."," ","#">>,
       <<"#","#","#","#","#","#">> >>

\* Two boxes side by side next to the worker; no solution exists.
LinesBlocked ==
    << <<"#","#","#","#","#","#","#">>,
       <<"#","."," ","$","$","@","#">>,
       <<"#"," "," ","."," "," ","#">>,
       <<"#","#","#","#","#","#","#">> >>

\* The box stands on its target already.
LinesSolved ==
    << <<"#","#","#","#","#">>,
       <<"#","@","*"," ","#">>,
       <<"#","#","#","#","#">> >>

\* The worker is walled in on a single cell; box and target are in another room.
LinesCloset ==
    << <<"#","#","#","#","#","#">>,
       <<"#","@","#","$",".","#">>,
       <<"#","#","#","#","#","#">> >>

\* Column 2 runs between the corners (2, 1) and (2, 4) with its wall on the
\* right at (2, 2) and on the left at (2, 3); a second room lies to the right.
LinesSwitch ==
    << <<"#","#","#","#","#","#","#">>,
       <<"#","."," ","#","#"," ","#">>,
       <<"#"," ","$","#","#"," ","#">>,
       <<"#","#"," "," ","#","#","#">>,
       <<"#","#"," ","@","#","#","#">>,
       <<"#","#","#","#","#","#","#">> >>

\* The worker stands between the box and the target; it gets behind the box by
\* the long way round, or by first pushing the box away from the target and
\* passing through the pocket above it.
LinesDetour ==
    << <<"#","#","#","#","#","#","#","#","#">>,
       <<"#"," "," "," ","#","#","#","#","#">>,
       <<"#"," "," ","$","@"," ","."," ","#">>,
       <<"#"," ","#","#","#","#","#"," ","#">>,
       <<"#"," "," "," "," "," "," "," ","#">>,
       <<"#","#","#","#","#","#","#","#","#">> >>

\* Each entry: the weights line and the grid lines of one warehouse file.
WarehouseFiles ==
    << [weights |-> <<2>>, lines |-> LinesScenario],
       [weights |-> <<1, 3>>, lines |-> LinesTwoBoxes],
       [weights |-> <<1, 2>>, lines |-> LinesBlocked],
       [weights |-> <<2>>, lines |-> LinesSolved],
       [weights |-> <<1>>, lines |-> LinesCloset],
       [weights |-> <<1>>, lines |-> LinesSwitch],
       [weights |-> <<1>>, lines |-> LinesDetour] >>

\* Warehouse.from_lines: the Warehouse object and its two mutable lists.
from_lines(file) ==
    LET lines   == file.lines
        walls   == Range(find_2D_iterator(lines, "#"))
        boxes   == find_2D_iterator(lines, "$") \o find_2D_iterator(lines, "*")
        targets == find_2D_iterator(lines, ".") \o find_2D_iterator(lines, "*")
                   \o find_2D_iterator(lines, "!")
        workers == find_2D_iterator(lines, "@") \o find_2D_iterator(lines, "!")
    IN  [warehouse |->
            [worker  |-> workers[1],
             boxes   |-> "warehouse_boxes",
             weights |-> "warehouse_weights",
             targets |-> targets,
             walls   |-> walls,
             ncols   |-> 1 + Max({c[1] : c \in walls}),
             nrows   |-> 1 + Max({c[2] : c \in walls})],
         warehouse_boxes   |-> boxes,
         warehouse_weights |-> file.weights]

---------------------------------------------------------------------------
(* Taboo analysis                                                          *)

RECURSIVE get_inside_round(_, _, _)
\* The recursive calls of get_inside_cells, taken together: every call adds its
\* cell and calls itself for the neighbours, in the four DIRECTIONS, that are
\* not yet in inside_cells; a call for a wall adds nothing.  The set that
\* results does not depend on the order of the calls, and is collected here one
\* ring of neighbours after the other: added are the cells the last ring added.
get_inside_round(warehouse, inside_cells, added) ==
    LET next_cells ==
            {<<cell[INDEXES.x + 1] + DIRECTIONS[i][2][INDEXES.x + 1],
               cell[INDEXES.y + 1] + DIRECTIONS[i][2][INDEXES.y + 1]>> :
                 cell \in added, i \in DOMAIN DIRECTIONS}
        ring == {next_cell \in next_cells :
                    next_cell \notin inside_cells /\ next_cell \notin warehouse.walls}
    IN  IF ring = {} THEN inside_cells
        ELSE get_inside_round(warehouse, inside_cells \cup ring, ring)

\* Mutant of get_inside_cells: every cell of the grid that is no wall is inside.
get_inside_cells_all(warehouse, inside_cells, cell) ==
    {c \in (0..(warehouse.ncols - 1)) \X (0..(warehouse.nrows - 1)) :
        c \notin warehouse.walls}

\* Mutant of get_inside_cells: the set of inside cells is one shared set that
\* still holds what the call of taboo_cells before this one put into it.
get_inside_cells_kept(warehouse, inside_cells, cell) ==
    LET kept == IF call.op = "taboo_cells"
                THEN get_inside_round(call.heap.warehouse,
                                      {call.heap.warehouse.worker},
                                      {call.heap.warehouse.worker})
                ELSE {}
    IN  IF cell \in warehouse.walls THEN inside_cells \cup kept
        ELSE get_inside_round(warehouse, inside_cells \cup kept \cup {cell}, {cell})

\* The flood fill from cell: returns inside_cells extended by what it reaches.
get_inside_cells(warehouse, inside_cells, cell) ==
    IF cell \in warehouse.walls THEN inside_cells
    ELSE get_inside_round(warehouse, inside_cells \cup {cell}, {cell})

\* Mutant of is_corner: a wall neighbour on one axis is enough.
is_corner_any_wall(warehouse, cell) ==
    \E k \in DOMAIN STEPS :
        \/ <<cell[INDEXES.x + 1] + STEPS[k], cell[INDEXES.y + 1]>> \in warehouse.walls
        \/ <<cell[INDEXES.x + 1], cell[INDEXES.y + 1] + STEPS[k]>> \in warehouse.walls

is_corner(warehouse, cell) ==
    LET wall_neighbour_x ==
            \E k \in DOMAIN STEPS :
                <<cell[INDEXES.x + 1] + STEPS[k], cell[INDEXES.y + 1]>> \in warehouse.walls
        wall_neighbour_y ==
            \E k \in DOMAIN STEPS :
                <<cell[INDEXES.x + 1], cell[INDEXES.y + 1] + STEPS[k]>> \in warehouse.walls
    IN  wall_neighbour_x /\ wall_neighbour_y

\* Mutant of get_corner_cells: the cell the worker stands on is left out.
get_corner_cells_but_worker(warehouse, cells) ==
    {cell \in cells : is_corner(warehouse, cell) /\ cell # warehouse.worker}

\* Mutant of get_corner_cells: every cell counts as a corner.
get_corner_cells_every(warehouse, cells) == cells

get_corner_cells(warehouse, cells) == {cell \in cells : is_corner(warehouse, cell)}

\* Mutant of has_adjacent_wall: only the negative side is looked at.
has_adjacent_wall_negative(warehouse, cell, axis_index) ==
    [cell EXCEPT ![axis_index + 1] = cell[axis_index + 1] + STEPS[1]] \in warehouse.walls

has_adjacent_wall(warehouse, cell, axis_index) ==
    \E k \in DOMAIN STEPS :
        [cell EXCEPT ![axis_index + 1] = cell[axis_index + 1] + STEPS[k]] \in warehouse.walls

Abs(n) == IF n < 0 THEN -n ELSE n

RECURSIVE taboo_between_kept(_, _, _, _, _, _, _)
\* Mutant of taboo_between_from: a cell that fails the test ends the loop and
\* what was collected is kept.
taboo_between_kept(warehouse, corner, stop, shared_axis_index, step, value, collected) ==
    IF (step > 0 /\ value >= stop) \/ (step < 0 /\ value <= stop) THEN collected
    ELSE LET cell == [i \in 1..2 |->
                         IF i = shared_axis_index + 1
                         THEN corner[shared_axis_index + 1] ELSE value]
         IN  IF /\ cell \notin warehouse.walls
                /\ cell \notin Range(warehouse.targets)
                /\ has_adjacent_wall(warehouse, cell, shared_axis_index)
             THEN taboo_between_kept(warehouse, corner, stop, shared_axis_index,
                                     step, value + step, collected \cup {cell})
             ELSE collected

RECURSIVE taboo_between_from(_, _, _, _, _, _, _)
\* The loop of get_taboo_cells_between from non_shared_axis_value on; a cell that
\* fails the test clears what was collected and ends the loop.
taboo_between_from(warehouse, corner, stop, shared_axis_index, step, value, collected) ==
    IF (step > 0 /\ value >= stop) \/ (step < 0 /\ value <= stop) THEN collected
    ELSE LET non_shared_axis_index == 1 - shared_axis_index
             cell == [i \in 1..2 |->
                         IF i = shared_axis_index + 1
                         THEN corner[shared_axis_index + 1] ELSE value]
         IN  IF /\ cell \notin warehouse.walls
                /\ cell \notin Range(warehouse.targets)
                /\ has_adjacent_wall(warehouse, cell, shared_axis_index)
             THEN taboo_between_from(warehouse, corner, stop, shared_axis_index,
                                     step, value + step, collected \cup {cell})
             ELSE {}

get_taboo_cells_between(warehouse, corner, other_corner, shared_axis_index) ==
    LET non_shared_axis_index == 1 - shared_axis_index
        relative_distance ==
            other_corner[non_shared_axis_index + 1] - corner[non_shared_axis_index + 1]
        step == relative_distance \div Abs(relative_distance)
    IN  taboo_between_from(warehouse, corner, other_corner[non_shared_axis_index + 1],
                           shared_axis_index, step,
                           corner[non_shared_axis_index + 1] + step, {})

\* The order in which combinations() pairs two cells: each unordered pair once.
CellBefore(c, d) == c[2] < d[2] \/ (c[2] = d[2] /\ c[1] < d[1])

\* Mutant of get_taboo_cells: the cells between two aligned corners are looked
\* at also when one of the corners is a target.
get_taboo_cells_target_corners(warehouse, corner_cells) ==
    LET corner_pairs == {p \in corner_cells \X corner_cells : CellBefore(p[1], p[2])}
        taboo_corners ==
            {corner \in corner_cells :
                /\ \E p \in corner_pairs : corner = p[1] \/ corner = p[2]
                /\ corner \notin Range(warehouse.targets)}
        taboo_cells_between(corner, other_corner) ==
            IF corner[INDEXES.x + 1] = other_corner[INDEXES.x + 1]
            THEN get_taboo_cells_between(warehouse, corner, other_corner, INDEXES.x)
            ELSE IF corner[INDEXES.y + 1] = other_corner[INDEXES.y + 1]
            THEN get_taboo_cells_between(warehouse, corner, other_corner, INDEXES.y)
            ELSE {}
    IN  taboo_corners \cup UNION {taboo_cells_between(p[1], p[2]) : p \in corner_pairs}

\* The loop of get_taboo_cells over the corner pairs, as the set it builds up.
\* A corner is in taboo_cells when its pair is looked at iff it is not a target:
\* the loop adds it just before if it is none, and nothing else ever adds a
\* target (the cells between two corners are no targets).
get_taboo_cells(warehouse, corner_cells) ==
    LET corner_pairs == {p \in corner_cells \X corner_cells : CellBefore(p[1], p[2])}
        taboo_corners ==
            {corner \in corner_cells :
                /\ \E p \in corner_pairs : corner = p[1] \/ corner = p[2]
                /\ corner \notin Range(warehouse.targets)}
        taboo_cells_between(corner, other_corner) ==
            IF corner \in taboo_corners /\ other_corner \in taboo_corners
            THEN IF corner[INDEXES.x + 1] = other_corner[INDEXES.x + 1]
                 THEN get_taboo_cells_between(warehouse, corner, other_corner, INDEXES.x)
                 ELSE IF corner[INDEXES.y + 1] = other_corner[INDEXES.y + 1]
                 THEN get_taboo_cells_between(warehouse, corner, other_corner, INDEXES.y)
                 ELSE {}
            ELSE {}
    IN  taboo_corners \cup UNION {taboo_cells_between(p[1], p[2]) : p \in corner_pairs}

\* Mutant of taboo_cells: the targets are drawn too.
taboo_cells_with_targets(warehouse) ==
    LET inside_cells        == get_inside_cells(warehouse, {}, warehouse.worker)
        inside_corner_cells == get_corner_cells(warehouse, inside_cells)
        taboo               == get_taboo_cells(warehouse, inside_corner_cells)
        row_strings ==
            [j \in 1..warehouse.nrows |->
                [i \in 1..warehouse.ncols |->
                    IF <<i - 1, j - 1>> \in warehouse.walls THEN CELL_CHARS.Wall
                    ELSE IF <<i - 1, j - 1>> \in taboo THEN CELL_CHARS.Taboo
                    ELSE IF <<i - 1, j - 1>> \in Range(warehouse.targets) THEN "."
                    ELSE CELL_CHARS.Empty]]
    IN  Join("\n", row_strings)

\* The text returned by taboo_cells(warehouse).
taboo_cells(warehouse) ==
    LET inside_cells        == get_inside_cells(warehouse, {}, warehouse.worker)
        inside_corner_cells == get_corner_cells(warehouse, inside_cells)
        taboo               == get_taboo_cells(warehouse, inside_corner_cells)
        row_strings ==
            [j \in 1..warehouse.nrows |->
                [i \in 1..warehouse.ncols |->
                    IF <<i - 1, j - 1>> \in warehouse.walls THEN CELL_CHARS.Wall
                    ELSE IF <<i - 1, j - 1>> \in taboo THEN CELL_CHARS.Taboo
                    ELSE CELL_CHARS.Empty]]
    IN  Join("\n", row_strings)

---------------------------------------------------------------------------
(* class SokobanPuzzle                                                     *)

State(worker, boxes) == [worker |-> worker, boxes |-> boxes]

\* SokobanPuzzle.__init__: the attributes of the puzzle built from the warehouse
\* object heap_[warehouse]; tuple() takes the lists by value.
SokobanPuzzle(heap_, warehouse) ==
    LET w == heap_[warehouse]
        taboo_cells_string == taboo_cells(w)
        taboo_cells_lines  == Split(taboo_cells_string, "\n")
    IN  [initial     |-> State(w.worker, heap_[w.boxes]),
         goal        |-> State(None, w.targets),
         taboo_cells |-> Range(find_2D_iterator(taboo_cells_lines, CELL_CHARS.Taboo)),
         walls       |-> w.walls,
         weights     |-> heap_[w.weights]]

RECURSIVE actions_from(_, _, _)
\* The loop of actions over DIRECTIONS.items() from item i on.
actions_from(self, state, i) ==
    IF i > Len(DIRECTIONS) THEN <<>>
    ELSE LET action    == DIRECTIONS[i][1]
             direction == DIRECTIONS[i][2]
             x_next == state.worker[1] + direction[INDEXES.x + 1]
             y_next == state.worker[2] + direction[INDEXES.y + 1]
             box_x_next == x_next + direction[INDEXES.x + 1]
             box_y_next == y_next + direction[INDEXES.y + 1]
             rest == actions_from(self, state, i + 1)
         IN  IF <<x_next, y_next>> \in self.walls THEN rest
             ELSE IF /\ <<x_next, y_next>> \in Range(state.boxes)
                     /\ \/ <<box_x_next, box_y_next>> \in self.walls
                        \/ <<box_x_next, box_y_next>> \in self.taboo_cells
                        \/ <<box_x_next, box_y_next>> \in Range(state.boxes)
             THEN rest
             ELSE <<action>> \o rest

\* Mutant of actions: the taboo cells are not consulted.
actions_ignoring_taboo(self, state) ==
    actions_from([self EXCEPT !.taboo_cells = {}], state, 1)

RECURSIVE Reversed(_)
\* The sequence read from its end.
Reversed(seq) ==
    IF seq = <<>> THEN <<>> ELSE Append(Reversed(Tail(seq)), Head(seq))

\* Mutant of actions: the directions are gone through from the last to the first.
actions_backwards(self, state) == Reversed(actions_from(self, state, 1))

\* Mutant of actions: a box may be pushed into another box.
actions_into_boxes(self, state) ==
    actions_from(self, [state EXCEPT !.boxes =
                            SelectSeq(state.boxes,
                                      LAMBDA b : \E a \in ActionLabels :
                                          <<state.worker[1] + Direction(a)[1],
                                            state.worker[2] + Direction(a)[2]>> = b)], 1)

\* Mutant of actions: the walls do not stop the worker.
actions_through_walls(self, state) ==
    actions_from([self EXCEPT !.walls = {}], state, 1)

actions(self, state) == actions_from(self, state, 1)

\* Mutant of result: a push always rewrites the first box of the sequence.
result_first_box(self, state, action) ==
    LET direction == Direction(action)
        next      == <<state.worker[1] + direction[1], state.worker[2] + direction[2]>>
        box_next  == <<next[1] + direction[1], next[2] + direction[2]>>
    IN  State(next, IF next \in Range(state.boxes)
                    THEN [state.boxes EXCEPT ![1] = box_next]
                    ELSE state.boxes)

\* Mutant of result: the pushed box is removed and appended at its new cell.
result_moved_box_last(self, state, action) ==
    LET direction == Direction(action)
        next      == <<state.worker[1] + direction[1], state.worker[2] + direction[2]>>
        box_next  == <<next[1] + direction[1], next[2] + direction[2]>>
    IN  State(next, IF next \in Range(state.boxes)
                    THEN Append(SelectSeq(state.boxes, LAMBDA b : b # next), box_next)
                    ELSE state.boxes)

\* Mutant of result: the worker steps onto the box and the box stays.
result_no_push(self, state, action) ==
    LET direction == Direction(action)
    IN  State(<<state.worker[1] + direction[1], state.worker[2] + direction[2]>>,
              state.boxes)

\* Mutant of result: an action that is not in actions(state) changes nothing.
result_staying(self, state, action) ==
    LET direction == Direction(action)
        next      == <<state.worker[1] + direction[1], state.worker[2] + direction[2]>>
        box_next  == <<next[1] + direction[1], next[2] + direction[2]>>
    IN  IF action \notin Range(actions(self, state)) THEN state
        ELSE State(next, [k \in DOMAIN state.boxes |->
                             IF state.boxes[k] = next THEN box_next ELSE state.boxes[k]])

\* Mutant of result: the puzzle keeps the state it returned last and goes on
\* from there.
result_from_last(self, state, action) ==
    LET from      == IF call.op = "result" THEN call.ret ELSE state
        direction == Direction(action)
        next      == <<from.worker[1] + direction[1], from.worker[2] + direction[2]>>
        box_next  == <<next[1] + direction[1], next[2] + direction[2]>>
    IN  State(next, [k \in DOMAIN from.boxes |->
                        IF from.boxes[k] = next THEN box_next ELSE from.boxes[k]])

result(self, state, action) ==
    LET direction == Direction(action)
        x_next == state.worker[1] + direction[INDEXES.x + 1]
        y_next == state.worker[2] + direction[INDEXES.y + 1]
        box_x_next == x_next + direction[INDEXES.x + 1]
        box_y_next == y_next + direction[INDEXES.y + 1]
        boxes_next ==
            IF <<x_next, y_next>> \in Range(state.boxes)
            THEN LET box_index == Index(state.boxes, <<x_next, y_next>>)
                 IN  [state.boxes EXCEPT ![box_index + 1] = <<box_x_next, box_y_next>>]
            ELSE state.boxes
    IN  State(<<x_next, y_next>>, boxes_next)

\* Mutant of goal_test: the tuples are compared, order included.
goal_test_ordered(self, state) == state.boxes = self.goal.boxes

\* Mutant of goal_test: one box on a target is enough.
goal_test_any(self, state) ==
    \E k \in DOMAIN state.boxes : state.boxes[k] \in Range(self.goal.boxes)

\* Mutant of goal_test: the whole state is compared with the goal state.
goal_test_whole_state(self, state) == state = self.goal

goal_test(self, state) == Range(state.boxes) = Range(self.goal.boxes)

Min(S) == CHOOSE m \in S : \A n \in S : m <= n

\* Mutant of path_cost: a push adds the weight of the first box.
path_cost_first_weight(self, c, state1, action, state2) ==
    IF \E k \in DOMAIN state1.boxes : state1.boxes[k] # state2.boxes[k]
    THEN c + (COST + self.weights[1])
    ELSE c + COST

path_cost(self, c, state1, action, state2) ==
    LET zipped == 1..Min({Len(state1.boxes), Len(state2.boxes)})
        moved  == {k \in zipped : state1.boxes[k] # state2.boxes[k]}
    IN  IF moved # {}
        THEN LET box_index == Min(moved) - 1
             IN  c + (COST + self.weights[box_index + 1])
        ELSE c + COST

manhattan_distance(cell, other_cell) ==
    LET distance_x == Abs(cell[INDEXES.x + 1] - other_cell[INDEXES.x + 1])
        distance_y == Abs(cell[INDEXES.y + 1] - other_cell[INDEXES.y + 1])
    IN  distance_x + distance_y

RECURSIVE Sum(_)
\* sum(...) of a sequence of numbers.
Sum(numbers) ==
    IF numbers = <<>> THEN 0 ELSE Head(numbers) + Sum(Tail(numbers))

\* Mutant of h: every box is charged its distance to the farthest target, and
\* that ten times over.
h_farthest_target(self, node_) ==
    LET state == node_.state
    IN  Sum([k \in 1..Min({Len(state.boxes), Len(self.weights)}) |->
                10 * Max({manhattan_distance(state.boxes[k], target)
                              * (self.weights[k] + COST) :
                          target \in Range(self.goal.boxes)})])

\* Mutant of h: the weights are left out of the estimate.
h_unweighted(self, node_) ==
    LET state == node_.state
    IN  Sum([k \in 1..Min({Len(state.boxes), Len(self.weights)}) |->
                Min({manhattan_distance(state.boxes[k], target) * COST :
                     target \in Range(self.goal.boxes)})])

h(self, node_) ==
    LET state == node_.state
        min_distances_to_targets ==
            [k \in 1..Min({Len(state.boxes), Len(self.weights)}) |->
                Min({manhattan_distance(state.boxes[k], target)
                         * (self.weights[k] + COST) :
                     target \in Range(self.goal.boxes)})]
    IN  Sum(min_distances_to_targets)

---------------------------------------------------------------------------
(* The action validator                                                    *)

Impossible == <<"I", "m", "p", "o", "s", "s", "i", "b", "l", "e">>

\* Warehouse.__str__ of the object heap_[warehouse]: walls, then targets, then
\* the worker, then the boxes are drawn over a rectangle of spaces.
WarehouseStr(heap_, warehouse) ==
    LET w      == heap_[warehouse]
        x_size == 1 + Max({c[1] : c \in w.walls})
        y_size == 1 + Max({c[2] : c \in w.walls})
        boxes  == Range(heap_[w.boxes])
        mark(cell) ==
            LET before_boxes ==
                    IF cell = w.worker
                    THEN (IF cell \in Range(w.targets) THEN "!" ELSE "@")
                    ELSE IF cell \in Range(w.targets) THEN "."
                    ELSE IF cell \in w.walls THEN "#"
                    ELSE " "
            IN  IF cell \in boxes
                THEN (IF before_boxes = "." THEN "*" ELSE "$")
                ELSE before_boxes
    IN  Join("\n", [j \in 1..y_size |-> [i \in 1..x_size |-> mark(<<i - 1, j - 1>>)]])

\* Mutant of the copy: warehouse.copy() without new lists shares the caller's.
copy_warehouse_shared(heap_, warehouse) ==
    [heap |-> heap_ @@ [warehouse_copy |-> heap_[warehouse]],
     ref  |-> "warehouse_copy"]

\* updated_warehouse = warehouse.copy(boxes = warehouse.boxes.copy(),
\* weights = warehouse.weights.copy()): the heap with the two new lists and the
\* new Warehouse object, and the reference to that object.
copy_warehouse(heap_, warehouse) ==
    [heap |-> heap_ @@ [boxes_copy   |-> heap_[heap_[warehouse].boxes],
                        weights_copy |-> heap_[heap_[warehouse].weights],
                        warehouse_copy |->
                            [heap_[warehouse] EXCEPT !.boxes = "boxes_copy",
                                                     !.weights = "weights_copy"]],
     ref  |-> "warehouse_copy"]

RECURSIVE check_from(_, _, _, _)
\* The loop of check_elem_action_seq from action i on; heap_ is the heap so
\* far, handed to the next turn of the loop as a value.
check_from(heap_, updated_warehouse, action_seq, i) ==
    IF i > Len(action_seq)
    THEN [ret |-> WarehouseStr(heap_, updated_warehouse), heap |-> heap_]
    ELSE LET uw        == heap_[updated_warehouse]
             direction == Direction(action_seq[i])
             x_next == uw.worker[1] + direction[INDEXES.x + 1]
             y_next == uw.worker[2] + direction[INDEXES.y + 1]
             box_x_next == x_next + direction[INDEXES.x + 1]
             box_y_next == y_next + direction[INDEXES.y + 1]
         IN  IF <<x_next, y_next>> \in uw.walls
             THEN [ret |-> Impossible, heap |-> heap_]
             ELSE IF <<x_next, y_next>> \in Range(heap_[uw.boxes])
             THEN IF \/ <<box_x_next, box_y_next>> \in uw.walls
                     \/ <<box_x_next, box_y_next>> \in Range(heap_[uw.boxes])
                  THEN [ret |-> Impossible, heap |-> heap_]
                  ELSE LET box_index == Index(heap_[uw.boxes], <<x_next, y_next>>)
                           moved == [heap_ EXCEPT ![uw.boxes][box_index + 1] =
                                                  <<box_x_next, box_y_next>>]
                       IN  CHOOSE done \in
                               {check_from(stepped, updated_warehouse, action_seq, i + 1) :
                                    stepped \in {[moved EXCEPT ![updated_warehouse].worker =
                                                                  <<x_next, y_next>>]}} : TRUE
             ELSE CHOOSE done \in
                      {check_from(stepped, updated_warehouse, action_seq, i + 1) :
                           stepped \in {[heap_ EXCEPT ![updated_warehouse].worker =
                                                          <<x_next, y_next>>]}} : TRUE

\* Mutant of check_elem_action_seq: the text returned is the caller's warehouse.
check_elem_action_seq_original_text(heap_, warehouse, action_seq) ==
    LET copied == copy_warehouse(heap_, warehouse)
        done   == check_from(copied.heap, copied.ref, action_seq, 1)
    IN  [ret     |-> IF done.ret = Impossible THEN Impossible
                     ELSE WarehouseStr(heap_, warehouse),
         heap    |-> [k \in DOMAIN heap_ |-> done.heap[k]],
         updated |-> [worker |-> done.heap[copied.ref].worker,
                      boxes  |-> done.heap[done.heap[copied.ref].boxes]]]

\* Mutant of check_elem_action_seq: a box pushed onto a taboo cell is refused.
check_elem_action_seq_taboo(heap_, warehouse, action_seq) ==
    LET copied == copy_warehouse(heap_, warehouse)
        done   == check_from(copied.heap, copied.ref, action_seq, 1)
        taboo  == Range(find_2D_iterator(Split(taboo_cells(heap_[warehouse]), "\n"),
                                         CELL_CHARS.Taboo))
        before == heap_[heap_[warehouse].boxes]
        after  == done.heap[done.heap[copied.ref].boxes]
    IN  [ret     |-> IF \E k \in DOMAIN after : after[k] # before[k] /\ after[k] \in taboo
                     THEN Impossible ELSE done.ret,
         heap    |-> [k \in DOMAIN heap_ |-> done.heap[k]],
         updated |-> [worker |-> done.heap[copied.ref].worker,
                      boxes  |-> done.heap[done.heap[copied.ref].boxes]]]

\* check_elem_action_seq(warehouse, action_seq): what it returns (ret), the heap
\* it leaves to the caller (its own objects are gone with the call), and, for
\* observation, where its local updated_warehouse stood when it returned.
check_elem_action_seq(heap_, warehouse, action_seq) ==
    LET copied == copy_warehouse(heap_, warehouse)
        done   == check_from(copied.heap, copied.ref, action_seq, 1)
    IN  [ret     |-> done.ret,
         heap    |-> [k \in DOMAIN heap_ |-> done.heap[k]],
         updated |-> [worker |-> done.heap[copied.ref].worker,
                      boxes  |-> done.heap[done.heap[copied.ref].boxes]]]

---------------------------------------------------------------------------
(* The state machine                                                       *)

NoCall == [op |-> "none"]

\* search.Node(state): a root node.
RootNode(state) == [state |-> state, path |-> <<>>, path_cost |-> 0]

\* A warehouse file is loaded and the puzzle is built from it.
Loaded ==
    \E k \in DOMAIN WarehouseFiles :
        /\ call = NoCall
        /\ heap = from_lines(WarehouseFiles[k])
        /\ puzzle = SokobanPuzzle(heap, "warehouse")
        /\ node = RootNode(puzzle.initial)
        /\ pc = "start"
        /\ frontier = {}
        /\ explored = {}

Init ==
    /\ Loaded
    /\ play = [worker |-> heap.warehouse.worker, boxes |-> heap.warehouse_boxes,
               cost |-> 0]

\* search.Node.child_node: the search follows one action of actions(state).
Expand(action) ==
    /\ Len(node.path) < MaxPath
    /\ action \in Range(actions(puzzle, node.state))
    /\ LET next == result(puzzle, node.state, action)
       IN  node' = [state     |-> next,
                    path      |-> Append(node.path, action),
                    path_cost |-> path_cost(puzzle, node.path_cost, node.state, action, next)]
    /\ call' = NoCall
    /\ UNCHANGED <<heap, puzzle, solve_vars>>

\* check_elem_action_seq(warehouse, solution_node.solution()), as in
\* solve_weighted_sokoban, on the path of the current node.
Replay ==
    /\ call = NoCall
    /\ LET done == check_elem_action_seq(heap, "warehouse", node.path)
       IN  /\ call' = [op |-> "check_elem_action_seq", action_seq |-> node.path,
                       ret |-> done.ret, updated |-> done.updated]
           /\ heap' = done.heap
    /\ UNCHANGED <<puzzle, node, solve_vars>>

Next == (\E action \in ActionLabels : Expand(action)) \/ Replay

Spec == Init /\ [][Next]_vars

---------------------------------------------------------------------------
(* Direct calls of the interface, as the unit tests make them              *)

\* The cells of the grid that are not walls.
FloorCells ==
    LET w == heap.warehouse
    IN  {c \in (0..(w.ncols - 1)) \X (0..(w.nrows - 1)) : c \notin w.walls}

\* The states a test may build: one cell per box of the puzzle, the boxes on
\* pairwise different floor cells, the worker on a floor cell without a box.
TestStates ==
    LET n == Len(puzzle.weights)
    IN  {s \in [worker : FloorCells, boxes : [1..n -> FloorCells]] :
            /\ \A i, j \in 1..n : i # j => s.boxes[i] # s.boxes[j]
            /\ s.worker \notin Range(s.boxes)}

\* One call is made on the freshly built fixture (call = NoCall).
CallActions ==
    /\ call = NoCall
    /\ \E state \in TestStates :
           call' = [op |-> "actions", state |-> state, ret |-> actions(puzzle, state)]
    /\ UNCHANGED <<heap, puzzle, node, solve_vars>>

\* result is called with any of the four labels, legal in state or not.
CallResult ==
    /\ call = NoCall
    /\ \E state \in TestStates, action \in ActionLabels :
           call' = [op |-> "result", state |-> state, action |-> action,
                    ret |-> result(puzzle, state, action)]
    /\ UNCHANGED <<heap, puzzle, node, solve_vars>>

CallGoalTest ==
    /\ call = NoCall
    /\ \E state \in TestStates :
           call' = [op |-> "goal_test", state |-> state, ret |-> goal_test(puzzle, state)]
    /\ UNCHANGED <<heap, puzzle, node, solve_vars>>

\* path_cost is called as search.Node.child_node calls it: state2 is the result
\* of a legal action in state1.
CallPathCost ==
    /\ call = NoCall
    /\ \E c \in 0..MaxCost, state1 \in TestStates :
         \E action \in Range(actions(puzzle, state1)) :
           LET state2 == result(puzzle, state1, action)
           IN  call' = [op |-> "path_cost", c |-> c, state1 |-> state1,
                        action |-> action, state2 |-> state2,
                        ret |-> path_cost(puzzle, c, state1, action, state2)]
    /\ UNCHANGED <<heap, puzzle, node, solve_vars>>

RECURSIVE ActionSeqs(_)
\* The action sequences of length n.
ActionSeqs(n) ==
    IF n = 0 THEN {<<>>}
    ELSE {Append(s, a) : s \in ActionSeqs(n - 1), a \in ActionLabels}

CallCheckElemActionSeq ==
    /\ call = NoCall
    /\ \E n \in 0..MaxSeq : \E action_seq \in ActionSeqs(n) :
           LET done == check_elem_action_seq(heap, "warehouse", action_seq)
           IN  /\ call' = [op |-> "check_elem_action_seq", action_seq |-> action_seq,
                           ret |-> done.ret, updated |-> done.updated]
               /\ heap' = done.heap
    /\ UNCHANGED <<puzzle, node, solve_vars>>

\* taboo_cells is called on a warehouse of the same walls and targets, with the
\* worker and the boxes at any well-formed position and the weights changed.
CallTabooCells ==
    /\ call = NoCall
    /\ \E state \in TestStates, heavier \in 0..1 :
           LET other == [warehouse         |-> [heap.warehouse EXCEPT
                                                    !.worker = state.worker],
                         warehouse_boxes   |-> state.boxes,
                         warehouse_weights |-> [k \in DOMAIN heap.warehouse_weights |->
                                                   heap.warehouse_weights[k] + heavier]]
           IN  call' = [op |-> "taboo_cells", heap |-> other,
                        ret |-> taboo_cells(other.warehouse)]
    /\ UNCHANGED <<heap, puzzle, node, solve_vars>>

\* h is called on the root node of a state, as test_h does.
CallH ==
    /\ call = NoCall
    /\ \E state \in TestStates :
           call' = [op |-> "h", state |-> state, ret |-> h(puzzle, RootNode(state))]
    /\ UNCHANGED <<heap, puzzle, node, solve_vars>>

NextCalls ==
    \/ CallActions
    \/ CallResult
    \/ CallGoalTest
    \/ CallPathCost
    \/ CallCheckElemActionSeq
    \/ CallTabooCells
    \/ CallH

SpecCalls == Init /\ [][NextCalls]_vars

---------------------------------------------------------------------------
(* solve_weighted_sokoban and the A* graph search it runs                  *)

\* f of astar_graph_search: n.path_cost + problem.h(n).
f(self, node_) == node_.path_cost + h(self, node_)

RECURSIVE LexLess(_, _)
\* Python's < on two tuples of integers.
LexLess(a, b) ==
    IF a = <<>> THEN b # <<>>
    ELSE IF b = <<>> THEN FALSE
    ELSE IF Head(a) # Head(b) THEN Head(a) < Head(b)
    ELSE LexLess(Tail(a), Tail(b))

RECURSIVE Flat(_)
\* The coordinates of a tuple of cells, one after the other.
Flat(cells) == IF cells = <<>> THEN <<>> ELSE Head(cells) \o Flat(Tail(cells))

\* search.Node.__lt__: nodes compare as their states (worker, boxes) do.
NodeLess(a, b) ==
    LexLess(a.state.worker \o Flat(a.state.boxes), b.state.worker \o Flat(b.state.boxes))

\* PriorityQueue.pop(): the node of least (f, node).
Pop(self, queue) ==
    CHOOSE n \in queue :
        \A m \in queue :
            m = n \/ f(self, n) < f(self, m)
                  \/ (f(self, n) = f(self, m) /\ NodeLess(n, m))

\* search.Node.child_node(problem, action).
child_node(self, node_, action) ==
    LET next == result(self, node_.state, action)
    IN  [state     |-> next,
         path      |-> Append(node_.path, action),
         path_cost |-> path_cost(self, node_.path_cost, node_.state, action, next)]

RECURSIVE expand_into_revisiting(_, _, _, _, _, _)
\* Mutant of expand_into: the explored set is not consulted, so a child whose
\* state was expanded before goes back on the frontier.
expand_into_revisiting(self, node_, acts, i, queue, seen) ==
    IF i > Len(acts) THEN queue
    ELSE LET child     == child_node(self, node_, acts[i])
             incumbent == {n \in queue : n.state = child.state}
         IN  IF incumbent = {}
             THEN expand_into_revisiting(self, node_, acts, i + 1,
                                         queue \cup {child}, seen)
             ELSE IF \A n \in incumbent : f(self, child) < f(self, n)
             THEN expand_into_revisiting(self, node_, acts, i + 1,
                                         (queue \ incumbent) \cup {child}, seen)
             ELSE expand_into_revisiting(self, node_, acts, i + 1, queue, seen)

RECURSIVE expand_into(_, _, _, _, _, _)
\* The loop of best_first_graph_search over node.expand(problem): the frontier
\* after the children for the actions from position i on are dealt with.
expand_into(self, node_, acts, i, queue, seen) ==
    IF i > Len(acts) THEN queue
    ELSE LET child     == child_node(self, node_, acts[i])
             incumbent == {n \in queue : n.state = child.state}
         IN  IF child.state \notin seen /\ incumbent = {}
             THEN expand_into(self, node_, acts, i + 1, queue \cup {child}, seen)
             ELSE IF incumbent # {}
                     /\ \A n \in incumbent : f(self, child) < f(self, n)
             THEN expand_into(self, node_, acts, i + 1,
                              (queue \ incumbent) \cup {child}, seen)
             ELSE expand_into(self, node_, acts, i + 1, queue, seen)

\* solve_weighted_sokoban builds the puzzle and astar_graph_search tests the
\* root node before it enters its loop.
SolveStart ==
    /\ pc = "start"
    /\ call = NoCall
    /\ node = RootNode(puzzle.initial)
    /\ IF goal_test(puzzle, node.state)
       THEN /\ pc' = "found"
            /\ UNCHANGED frontier
       ELSE /\ pc' = "search"
            /\ frontier' = {node}
    /\ explored' = {}
    /\ UNCHANGED <<heap, puzzle, node, call, play>>

\* One turn of the loop of astar_graph_search.
SearchStep ==
    /\ pc = "search"
    /\ IF frontier = {}
       THEN /\ node' = None
            /\ pc' = "found"
            /\ UNCHANGED <<frontier, explored>>
       ELSE \E popped \in {Pop(puzzle, frontier)} :
                /\ node' = popped
                /\ IF goal_test(puzzle, popped.state)
                   THEN /\ pc' = "found"
                        /\ frontier' = frontier \ {popped}
                        /\ UNCHANGED explored
                   ELSE /\ pc' = "search"
                        /\ explored' = explored \cup {popped.state}
                        /\ \E acts \in {actions(puzzle, popped.state)} :
                               frontier' =
                                   expand_into(puzzle, popped, acts, 1,
                                               frontier \ {popped},
                                               explored \cup {popped.state})
    /\ UNCHANGED <<heap, puzzle, call, play>>

\* The end of solve_weighted_sokoban: the solution is replayed and returned.
SolveReturn ==
    /\ pc = "found"
    /\ IF node = None
       THEN /\ call' = [op |-> "solve_weighted_sokoban", ret |-> <<Impossible, None>>]
            /\ UNCHANGED heap
       ELSE LET done == check_elem_action_seq(heap, "warehouse", node.path)
            IN  /\ call' = [op  |-> "solve_weighted_sokoban",
                            ret |-> IF done.ret = Impossible
                                    THEN <<Impossible, None>>
                                    ELSE <<node.path, node.path_cost>>]
                /\ heap' = done.heap
    /\ pc' = "done"
    /\ UNCHANGED <<puzzle, node, frontier, explored, play>>

\* The validator accepts one more action after the sequence played so far; the
\* cost of the longer sequence is one more, and the weight of the box it pushes.
Move(action) ==
    LET view == [warehouse         |-> [heap.warehouse EXCEPT !.worker = play.worker],
                 warehouse_boxes   |-> play.boxes,
                 warehouse_weights |-> heap.warehouse_weights]
        done == check_elem_action_seq(view, "warehouse", <<action>>)
        pushed == {k \in DOMAIN play.boxes : done.updated.boxes[k] # play.boxes[k]}
        weight == IF pushed = {} THEN 0
                  ELSE heap.warehouse_weights[CHOOSE k \in pushed : TRUE]
    IN  [ok     |-> done.ret # Impossible,
         worker |-> done.updated.worker,
         boxes  |-> done.updated.boxes,
         cost   |-> Min({MaxPlayCost, play.cost + 1 + weight})]

\* After solve_weighted_sokoban has returned, the game is played from the
\* initial warehouse by any sequence the validator accepts.
Play(action) ==
    /\ pc = "done"
    /\ Move(action).ok
    /\ play' = [worker |-> Move(action).worker, boxes |-> Move(action).boxes,
                cost |-> Move(action).cost]
    /\ UNCHANGED <<heap, puzzle, node, call, pc, frontier, explored>>

NextSolve ==
    \/ SolveStart
    \/ SearchStep
    \/ SolveReturn
    \/ \E action \in ActionLabels : Play(action)

SpecSolve == Init /\ [][NextSolve]_vars

\* The interpreter runs solve_weighted_sokoban statement by statement: a step
\* of the call that can be taken is taken. The game played afterwards is up
\* to the caller.
SpecSolveFair ==
    /\ SpecSolve
    /\ WF_vars(SolveStart)
    /\ WF_vars(SearchStep)
    /\ WF_vars(SolveReturn)

---------------------------------------------------------------------------
(* The game played from any position of the boxes and the worker           *)

\* Any well-formed position is set up on the grid of a loaded warehouse.
InitGame ==
    /\ Loaded
    /\ \E state \in TestStates :
           play = [worker |-> state.worker, boxes |-> state.boxes, cost |-> 0]

\* One more action that the validator accepts; no cost is counted here.
PlayOn(action) ==
    /\ Move(action).ok
    /\ play' = [worker |-> Move(action).worker, boxes |-> Move(action).boxes,
                cost |-> 0]
    /\ UNCHANGED <<heap, puzzle, node, call, pc, frontier, explored>>

NextGame == \E action \in ActionLabels : PlayOn(action)

SpecGame == InitGame /\ [][NextGame]_vars

---------------------------------------------------------------------------
(* Calls made one after another on the same fixture                        *)

\* The number of calls made so far.
CallCount == IF "count" \in DOMAIN call THEN call.count ELSE 1

RECURSIVE LastState(_)
\* The state the latest call with a state argument was made with; the initial
\* state if there was none.
LastState(made) ==
    IF "state" \in DOMAIN made THEN made.state
    ELSE IF "before" \in DOMAIN made THEN LastState(made.before)
    ELSE puzzle.initial

RECURSIVE LastActions(_)
\* The action the latest call of result was made with; any action if there
\* was none.
LastActions(made) ==
    IF "action" \in DOMAIN made THEN {made.action}
    ELSE IF "before" \in DOMAIN made THEN LastActions(made.before)
    ELSE ActionLabels

\* taboo_cells is called once more on the warehouse that was loaded.
TabooCellsAgain ==
    /\ call # NoCall
    /\ CallCount < MaxCalls
    /\ call' = [op |-> "taboo_cells", heap |-> heap, ret |-> taboo_cells(heap.warehouse),
                before |-> call, count |-> CallCount + 1]
    /\ UNCHANGED <<heap, puzzle, node, solve_vars>>

\* actions is called once more, with the state of the latest call that had one.
ActionsAgain ==
    /\ call # NoCall
    /\ CallCount < MaxCalls
    /\ LET state == LastState(call)
       IN  call' = [op |-> "actions", state |-> state, ret |-> actions(puzzle, state),
                    before |-> call, count |-> CallCount + 1]
    /\ UNCHANGED <<heap, puzzle, node, solve_vars>>

\* result is called once more, with the state of the latest call that had one
\* and the action of the latest call that had one.
ResultAgain ==
    /\ call # NoCall
    /\ CallCount < MaxCalls
    /\ LET state == LastState(call)
       IN  \E action \in LastActions(call) :
               call' = [op |-> "result", state |-> state, action |-> action,
                        ret |-> result(puzzle, state, action),
                        before |-> call, count |-> CallCount + 1]
    /\ UNCHANGED <<heap, puzzle, node, solve_vars>>

NextTwice ==
    \/ CallActions
    \/ CallResult
    \/ CallCheckElemActionSeq
    \/ CallTabooCells
    \/ TabooCellsAgain
    \/ ActionsAgain
    \/ ResultAgain

SpecTwice == Init /\ [][NextTwice]_vars

---------------------------------------------------------------------------
(* The states the search can reach                                         *)

\* The state the game stands in.
PlayState == State(play.worker, play.boxes)

\* One action of actions(state) is applied with result, as the search does
\* when it expands a node.
Act(action) ==
    /\ action \in Range(actions(puzzle, PlayState))
    /\ LET next == result(puzzle, PlayState, action)
       IN  play' = [worker |-> next.worker, boxes |-> next.boxes, cost |-> 0]
    /\ UNCHANGED <<heap, puzzle, node, call, pc, frontier, explored>>

NextReach == \E action \in ActionLabels : Act(action)

\* The states reached from the initial state of a loaded warehouse.
SpecReach == Init /\ [][NextReach]_vars

\* The states reached from any well-formed position by actions applied with
\* result and by actions the validator accepts.
NextMoves == NextReach \/ NextGame

SpecMoves == InitGame /\ [][NextMoves]_vars

---------------------------------------------------------------------------
(* get_inside_cells call by call                                           *)

\* The entry of a call of get_inside_cells for cell: a wall returns at once;
\* any other cell is added and gets a frame whose loop starts at the first
\* direction. A call nested deeper than Python allows raises and unwinds.
fill_enter(warehouse, fill, cell) ==
    IF Len(fill.stack) >= MaxDepth
    THEN [fill EXCEPT !.stack = <<>>, !.raised = TRUE]
    ELSE IF cell \in warehouse.walls THEN fill
    ELSE [fill EXCEPT !.inside_cells = @ \cup {cell},
                      !.stack = Append(@, [cell |-> cell, i |-> 1]),
                      !.adds = Append(@, cell)]

\* Mutant of fill_step: the next cell is entered whether it is inside or not.
fill_step_revisiting(warehouse, fill) ==
    LET top == fill.stack[Len(fill.stack)]
    IN  IF top.i > Len(DIRECTIONS)
        THEN [fill EXCEPT !.stack = SubSeq(@, 1, Len(@) - 1)]
        ELSE LET direction == DIRECTIONS[top.i][2]
                 next_cell == <<top.cell[INDEXES.x + 1] + direction[INDEXES.x + 1],
                                top.cell[INDEXES.y + 1] + direction[INDEXES.y + 1]>>
                 advanced  == [fill EXCEPT !.stack[Len(fill.stack)].i = top.i + 1]
             IN  fill_enter(warehouse, advanced, next_cell)

\* One turn of the loop over DIRECTIONS in the innermost call: the call returns
\* when the loop is through; otherwise it looks at the next cell in the
\* direction and calls itself for it unless the cell is inside already.
fill_step(warehouse, fill) ==
    LET top == fill.stack[Len(fill.stack)]
    IN  IF top.i > Len(DIRECTIONS)
        THEN [fill EXCEPT !.stack = SubSeq(@, 1, Len(@) - 1)]
        ELSE LET direction == DIRECTIONS[top.i][2]
                 next_cell == <<top.cell[INDEXES.x + 1] + direction[INDEXES.x + 1],
                                top.cell[INDEXES.y + 1] + direction[INDEXES.y + 1]>>
                 advanced  == [fill EXCEPT !.stack[Len(fill.stack)].i = top.i + 1]
             IN  IF next_cell \notin fill.inside_cells
                 THEN fill_enter(warehouse, advanced, next_cell)
                 ELSE advanced

\* get_inside_cells(warehouse) is called for the loaded grid with the worker on
\* any floor cell that has no box: a new set, the cell of the worker.
StartFill ==
    /\ call = NoCall
    /\ \E cell \in FloorCells \ Range(heap.warehouse_boxes) :
           LET warehouse == [heap.warehouse EXCEPT !.worker = cell]
           IN  call' = [op |-> "get_inside_cells", warehouse |-> warehouse]
                          @@ fill_enter(warehouse,
                                        [inside_cells |-> {}, stack |-> <<>>,
                                         adds |-> <<>>, raised |-> FALSE],
                                        warehouse.worker)
    /\ UNCHANGED <<heap, puzzle, node, solve_vars>>

\* The call goes on by one turn of its innermost loop.
FillStep ==
    /\ call.op = "get_inside_cells"
    /\ call.stack # <<>>
    /\ call' = [op |-> "get_inside_cells", warehouse |-> call.warehouse]
                   @@ fill_step(call.warehouse,
                                [inside_cells |-> call.inside_cells, stack |-> call.stack,
                                 adds |-> call.adds, raised |-> call.raised])
    /\ UNCHANGED <<heap, puzzle, node, solve_vars>>

NextFill == StartFill \/ FillStep

\* The interpreter goes on with a call that has not returned.
SpecFill == Init /\ [][NextFill]_vars /\ WF_vars(FillStep)

---------------------------------------------------------------------------
(* The heuristic of a position, and the game played on from that position  *)

\* h is called on the root node of any well-formed position, and the position
\* is set up for the game.
StartRun ==
    /\ call = NoCall
    /\ \E state \in TestStates :
           /\ call' = [op |-> "h", state |-> state, ret |-> h(puzzle, RootNode(state))]
           /\ play' = [worker |-> state.worker, boxes |-> state.boxes, cost |-> 0]
    /\ UNCHANGED <<heap, puzzle, node, pc, frontier, explored>>

\* One more action that the validator accepts, its cost added to the cost of
\* the game so far.
Run(action) ==
    /\ call.op = "h"
    /\ LET moved == Move(action)
       IN  /\ moved.ok
           /\ moved.cost <= MaxRunCost
           /\ play' = [worker |-> moved.worker, boxes |-> moved.boxes,
                       cost |-> moved.cost]
    /\ UNCHANGED <<heap, puzzle, node, call, pc, frontier, explored>>

NextRun == StartRun \/ \E action \in ActionLabels : Run(action)

SpecRun == Init /\ [][NextRun]_vars

---------------------------------------------------------------------------
(* What the claims are stated in                                           *)

\* The cell one step from cell in the direction of action.
Step(cell, action) ==
    <<cell[1] + Direction(action)[1], cell[2] + Direction(action)[2]>>

\* The taboo set as the taboo analysis computes it for the caller's warehouse.
TabooSet ==
    get_taboo_cells(heap.warehouse,
        get_corner_cells(heap.warehouse,
            get_inside_cells(heap.warehouse, {}, heap.warehouse.worker)))

\* The caller's warehouse as the caller sees it.
CallerView ==
    [worker  |-> heap.warehouse.worker,
     boxes   |-> heap[heap.warehouse.boxes],
     weights |-> heap[heap.warehouse.weights],
     walls   |-> heap.warehouse.walls,
     targets |-> heap.warehouse.targets]

\* The game rule of one action: it offends when the worker would enter a wall,
\* or would push a box into a wall or into another box.
Offends(walls, worker, boxes, action) ==
    \/ Step(worker, action) \in walls
    \/ /\ Step(worker, action) \in Range(boxes)
       /\ \/ Step(Step(worker, action), action) \in walls
          \/ Step(Step(worker, action), action) \in Range(boxes)

RECURSIVE Played(_, _, _, _)
\* The game played from (worker, boxes): where the actions lead, or that the
\* first offending action stopped it.
Played(walls, worker, boxes, action_seq) ==
    IF action_seq = <<>> THEN [ok |-> TRUE, worker |-> worker, boxes |-> boxes]
    ELSE IF Offends(walls, worker, boxes, Head(action_seq))
    THEN [ok |-> FALSE, worker |-> worker, boxes |-> boxes]
    ELSE LET to == Step(worker, Head(action_seq))
         IN  Played(walls, to,
                    [k \in DOMAIN boxes |->
                        IF boxes[k] = to THEN Step(to, Head(action_seq)) ELSE boxes[k]],
                    Tail(action_seq))

\* The text of the caller's grid with the worker and the boxes put elsewhere.
GridText(worker, boxes) ==
    WarehouseStr([warehouse |-> [heap.warehouse EXCEPT !.worker = worker],
                  warehouse_boxes |-> boxes,
                  warehouse_weights |-> heap.warehouse_weights], "warehouse")

\* The character of a grid text at a cell.
CharAt(text, cell) == Split(text, "\n")[cell[2] + 1][cell[1] + 1]

\* The call recorded is a call of result with an action legal in its state.
LegalResultCall ==
    call.op = "result" /\ call.action \in Range(actions(puzzle, call.state))

---------------------------------------------------------------------------
(* The claims                                                              *)

\* C1: for every state and each of the four directions, actions(state) contains
\* the direction iff the cell next to the worker is not a wall and, if that cell
\* holds a box, the cell beyond it is not a wall, not a taboo cell and not
\* another box.
C1_ActionsLegalIff ==
    call.op = "actions" =>
        \A a \in ActionLabels :
            LET adjacent == Step(call.state.worker, a)
                beyond   == Step(adjacent, a)
            IN  (a \in Range(call.ret)) <=>
                    /\ adjacent \notin heap.warehouse.walls
                    /\ adjacent \in Range(call.state.boxes) =>
                           /\ beyond \notin heap.warehouse.walls
                           /\ beyond \notin TabooSet
                           /\ beyond \notin Range(call.state.boxes)

\* actions was called where a box could be pushed but for the taboo cell beyond
\* it, and where another direction is legal.
C1_Witness ==
    /\ call.op = "actions"
    /\ call.ret # <<>>
    /\ \E a \in ActionLabels :
           /\ Step(call.state.worker, a) \in Range(call.state.boxes)
           /\ Step(Step(call.state.worker, a), a) \in TabooSet
           /\ Step(Step(call.state.worker, a), a) \notin Range(call.state.boxes)
           /\ a \notin Range(call.ret)

\* C2: for every action of actions(state), result moves the worker one cell in
\* the action's direction; a box on that cell moves one cell further in the same
\* direction and every other box stays; without a box there only the worker
\* moves.
C2_ResultMovesWorkerAndBox ==
    LegalResultCall =>
        LET to == Step(call.state.worker, call.action)
        IN  /\ call.ret.worker = to
            /\ DOMAIN call.ret.boxes = DOMAIN call.state.boxes
            /\ \A k \in DOMAIN call.state.boxes :
                   call.ret.boxes[k] =
                       IF call.state.boxes[k] = to THEN Step(to, call.action)
                       ELSE call.state.boxes[k]

\* result was called for a push of the second box of two.
C2_Witness ==
    /\ LegalResultCall
    /\ Len(call.state.boxes) = 2
    /\ call.state.boxes[2] = Step(call.state.worker, call.action)
    /\ call.ret.worker = call.state.boxes[2]

\* C3: result keeps the length of the box sequence; exactly one box coordinate
\* changes on a push and none otherwise, so every other box keeps its index and
\* its cell.
C3_ResultKeepsIndexes ==
    LegalResultCall =>
        LET changed == {k \in DOMAIN call.state.boxes :
                           call.ret.boxes[k] # call.state.boxes[k]}
            push    == Step(call.state.worker, call.action) \in Range(call.state.boxes)
        IN  /\ Len(call.ret.boxes) = Len(call.state.boxes)
            /\ Cardinality(changed) = IF push THEN 1 ELSE 0

\* result was called for a push of the first box of two, the second staying.
C3_Witness ==
    /\ LegalResultCall
    /\ Len(call.state.boxes) = 2
    /\ call.state.boxes[1] = Step(call.state.worker, call.action)
    /\ call.ret.boxes[1] # call.state.boxes[1]
    /\ call.ret.boxes[2] = call.state.boxes[2]

\* The sequence with its first two elements exchanged.
Swapped(seq) ==
    [k \in DOMAIN seq |-> IF k = 1 THEN seq[2] ELSE IF k = 2 THEN seq[1] ELSE seq[k]]

\* C4: goal_test is true iff the set of box cells equals the set of target
\* cells, whatever the order of the boxes and wherever the worker stands.
C4_GoalTestSetEquality ==
    call.op = "goal_test" =>
        /\ call.ret <=> (Range(call.state.boxes) = Range(heap.warehouse.targets))
        /\ \A worker \in FloorCells :
               goal_test(puzzle, [call.state EXCEPT !.worker = worker]) = call.ret
        /\ Len(call.state.boxes) >= 2 =>
               goal_test(puzzle, [call.state EXCEPT !.boxes = Swapped(@)]) = call.ret

\* goal_test was true of two boxes standing on the targets in the other order.
C4_Witness ==
    /\ call.op = "goal_test"
    /\ call.ret
    /\ Len(call.state.boxes) = 2
    /\ call.state.boxes # heap.warehouse.targets

C6_PathCost ==
    call.op = "path_cost" =>
        LET moved == {k \in DOMAIN call.state1.boxes :
                         call.state1.boxes[k] # call.state2.boxes[k]}
        IN  /\ call.ret >= call.c + 1
            /\ moved = {} => call.ret = call.c + 1
            /\ \A k \in moved : call.ret = call.c + 1 + heap.warehouse_weights[k]

\* path_cost was called for a push of the second box, whose weight is not the
\* first box's, on top of a cost already accumulated.
C6_Witness ==
    /\ call.op = "path_cost"
    /\ call.c > 0
    /\ Len(call.state1.boxes) = 2
    /\ call.state1.boxes[2] # call.state2.boxes[2]
    /\ heap.warehouse_weights[2] # heap.warehouse_weights[1]

\* C7: check_elem_action_seq returns 'Impossible' iff some action, with the
\* actions before it applied, would take the worker into a wall or push a box
\* into a wall or another box; otherwise it returns the text of the grid with
\* the worker and the boxes where the last action left them.
C7_CheckElemActionSeq ==
    call.op = "check_elem_action_seq" =>
        LET played == Played(heap.warehouse.walls, heap.warehouse.worker,
                             heap.warehouse_boxes, call.action_seq)
        IN  /\ (call.ret = Impossible) <=> ~played.ok
            /\ played.ok => call.ret = GridText(played.worker, played.boxes)

\* check_elem_action_seq returned 'Impossible' for a sequence whose last action,
\* legal actions before it, pushes a box into another box.
C7_Witness ==
    /\ call.op = "check_elem_action_seq"
    /\ call.ret = Impossible
    /\ Len(call.action_seq) >= 2
    /\ LET n      == Len(call.action_seq)
           played == Played(heap.warehouse.walls, heap.warehouse.worker,
                            heap.warehouse_boxes, SubSeq(call.action_seq, 1, n - 1))
       IN  /\ played.ok
           /\ Step(played.worker, call.action_seq[n]) \in Range(played.boxes)
           /\ Step(Step(played.worker, call.action_seq[n]), call.action_seq[n])
                  \in Range(played.boxes)

\* The call recorded is a call of check_elem_action_seq whose last action, legal
\* actions before it, pushes a box onto a free taboo cell.
PushOntoTaboo ==
    /\ call.op = "check_elem_action_seq"
    /\ call.action_seq # <<>>
    /\ LET n      == Len(call.action_seq)
           played == Played(heap.warehouse.walls, heap.warehouse.worker,
                            heap.warehouse_boxes, SubSeq(call.action_seq, 1, n - 1))
           beyond == Step(Step(played.worker, call.action_seq[n]), call.action_seq[n])
       IN  /\ played.ok
           /\ Step(played.worker, call.action_seq[n]) \in Range(played.boxes)
           /\ beyond \in TabooSet
           /\ beyond \notin heap.warehouse.walls
           /\ beyond \notin Range(played.boxes)

\* C8: check_elem_action_seq does not consult the taboo set: a push of a box
\* onto a taboo cell that is neither a wall nor another box is accepted, and the
\* box stands on that cell in the text returned.
C8_CheckAcceptsTabooPush ==
    PushOntoTaboo =>
        LET n == Len(call.action_seq)
        IN  /\ call.ret # Impossible
            /\ CharAt(call.ret, Step(call.updated.worker, call.action_seq[n])) = "$"

\* check_elem_action_seq was called with a sequence ending in such a push.
C8_Witness == PushOntoTaboo /\ call.ret # Impossible

\* C9: check_elem_action_seq leaves the caller's warehouse as it was: the same
\* worker cell, box sequence, weights, walls and targets, whether it returns a
\* text or 'Impossible'.
C9_CheckLeavesWarehouse ==
    [][call'.op = "check_elem_action_seq" => CallerView' = CallerView]_vars

\* check_elem_action_seq returned 'Impossible' after it had applied a push.
C9_Witness ==
    /\ call.op = "check_elem_action_seq"
    /\ call.ret = Impossible
    /\ call.updated.boxes # heap.warehouse_boxes

\* C10: the action path of every node the search reaches from the initial state
\* by actions and result is accepted by check_elem_action_seq on the initial
\* warehouse, which ends with the worker and every box (index by index) where
\* the node's state has them, and returns the text of that state.
C10_ReplayAgreesWithSearch ==
    call.op = "check_elem_action_seq" =>
        /\ call.action_seq = node.path
        /\ call.ret # Impossible
        /\ call.updated.worker = node.state.worker
        /\ call.updated.boxes = node.state.boxes
        /\ call.ret = GridText(node.state.worker, node.state.boxes)

\* The path of a node in which both boxes were pushed was replayed.
C10_Witness ==
    /\ call.op = "check_elem_action_seq"
    /\ call.action_seq = node.path
    /\ Len(node.state.boxes) = 2
    /\ node.state.boxes[1] # puzzle.initial.boxes[1]
    /\ node.state.boxes[2] # puzzle.initial.boxes[2]

---------------------------------------------------------------------------
(* The claims about solve_weighted_sokoban                                 *)

RECURSIVE CostOf(_, _, _)
\* The cost of playing action_seq from (worker, boxes): one for every action
\* and, for every push, the weight of the box pushed.
CostOf(worker, boxes, action_seq) ==
    IF action_seq = <<>> THEN 0
    ELSE LET to     == Step(worker, Head(action_seq))
             pushed == {k \in DOMAIN boxes : boxes[k] = to}
             weight == IF pushed = {} THEN 0
                       ELSE heap.warehouse_weights[CHOOSE k \in pushed : TRUE]
         IN  1 + weight
               + CostOf(to, [k \in DOMAIN boxes |->
                                IF boxes[k] = to THEN Step(to, Head(action_seq))
                                ELSE boxes[k]],
                        Tail(action_seq))

\* Every target holds a box and every box is on a target.
Covered(boxes) ==
    /\ \A t \in Range(heap.warehouse.targets) : t \in Range(boxes)
    /\ \A k \in DOMAIN boxes : boxes[k] \in Range(heap.warehouse.targets)

\* solve_weighted_sokoban has returned an action sequence and its cost.
Solved ==
    /\ pc = "done"
    /\ call.op = "solve_weighted_sokoban"
    /\ call.ret[1] # Impossible

\* solve_weighted_sokoban has returned 'Impossible'.
Unsolved ==
    /\ pc = "done"
    /\ call.op = "solve_weighted_sokoban"
    /\ call.ret[1] = Impossible

\* C11: whenever solve_weighted_sokoban returns a sequence S with cost C, S uses
\* only the four labels, every action of S is legal by the game rule when S is
\* replayed from the initial grid, the replay ends with every target covered
\* and every box on a target, and C is the number of actions of S plus the
\* weights of the boxes pushed, push by push.
C11_SolutionIsSound ==
    Solved =>
        LET S      == call.ret[1]
            C      == call.ret[2]
            played == Played(heap.warehouse.walls, heap.warehouse.worker,
                             heap.warehouse_boxes, S)
        IN  /\ Range(S) \subseteq {"Left", "Right", "Up", "Down"}
            /\ played.ok
            /\ Covered(played.boxes)
            /\ C = CostOf(heap.warehouse.worker, heap.warehouse_boxes, S)

\* A solution was returned that pushes two boxes of different weights.
C11_Witness ==
    /\ Solved
    /\ Len(heap.warehouse_boxes) = 2
    /\ heap.warehouse_weights[1] # heap.warehouse_weights[2]
    /\ call.ret[2] > Len(call.ret[1])

\* C12: the cost returned by solve_weighted_sokoban is minimal: no sequence that
\* the game rule accepts from the initial grid and that ends with every box on
\* a target costs less.
C12_SolutionIsMinimal ==
    (Solved /\ Covered(play.boxes)) => play.cost >= call.ret[2]

\* A sequence other than the one returned, and dearer, was played to the goal.
C12_Witness ==
    /\ Solved
    /\ Covered(play.boxes)
    /\ play.cost > call.ret[2]
    /\ play.cost < MaxPlayCost

\* C13: solve_weighted_sokoban returns ('Impossible', None) exactly when no
\* sequence that the game rule accepts brings every box onto a target: after
\* 'Impossible' no play of the game covers the targets, and a sequence returned
\* is itself such a play.
C13_ImpossibleIffUnsolvable ==
    /\ Unsolved => (call.ret[2] = None /\ ~Covered(play.boxes))
    /\ Solved =>
           LET played == Played(heap.warehouse.walls, heap.warehouse.worker,
                                heap.warehouse_boxes, call.ret[1])
           IN  played.ok /\ Covered(played.boxes)

\* 'Impossible' was returned and the game was played on, a box pushed about.
C13_Witness ==
    /\ Unsolved
    /\ play.boxes # heap.warehouse_boxes
    /\ play.worker # heap.warehouse.worker

\* C14: if the initial grid has every box on a target and every target covered,
\* solve_weighted_sokoban returns the empty sequence with cost 0.
C14_SolvedAtStart ==
    (pc = "done" /\ Covered(heap.warehouse_boxes)) =>
        /\ call.op = "solve_weighted_sokoban"
        /\ call.ret[1] = <<>>
        /\ call.ret[2] = 0

\* solve_weighted_sokoban returned for a grid whose box stands on its target.
C14_Witness ==
    /\ pc = "done"
    /\ Covered(heap.warehouse_boxes)
    /\ call.op = "solve_weighted_sokoban"
    /\ call.ret[1] # Impossible

---------------------------------------------------------------------------
(* The claims about the taboo cells                                        *)

RECURSIVE RegionFrom(_, _, _)
\* The cells reached from found by moves in the four directions through cells
\* that are no walls; last are the cells of found not yet moved from.
RegionFrom(walls, found, last) ==
    LET more == {c \in {<<d[1] + e[1], d[2] + e[2]>> :
                           d \in last, e \in {<<-1, 0>>, <<1, 0>>, <<0, -1>>, <<0, 1>>}} :
                    c \notin walls /\ c \notin found}
    IN  IF more = {} THEN found ELSE RegionFrom(walls, found \cup more, more)

\* The wall-enclosed region a cell that is no wall lies in.
Region(walls, cell) == RegionFrom(walls, {cell}, {cell})

\* The cell has a wall next to it on the x-axis and one on the y-axis.
Corner(walls, cell) ==
    /\ <<cell[1] - 1, cell[2]>> \in walls \/ <<cell[1] + 1, cell[2]>> \in walls
    /\ <<cell[1], cell[2] - 1>> \in walls \/ <<cell[1], cell[2] + 1>> \in walls

\* The call recorded is a call of taboo_cells.
TabooCall == call.op = "taboo_cells"

\* The cells of the grid of the call.
GridCells ==
    (0..(call.heap.warehouse.ncols - 1)) \X (0..(call.heap.warehouse.nrows - 1))

\* The cells the text returned marks taboo.
Marked == {c \in GridCells : CharAt(call.ret, c) = "X"}

\* The region of the worker of the call.
CallRegion == Region(call.heap.warehouse.walls, call.heap.warehouse.worker)

\* The corners of that region that are no targets.
TabooCorners ==
    {c \in CallRegion : /\ Corner(call.heap.warehouse.walls, c)
                        /\ c \notin Range(call.heap.warehouse.targets)}

\* C15: every cell taboo_cells marks lies in the region reached from the worker
\* by moves in the four directions through cells that are no walls, the boxes
\* ignored; no marked cell is a wall, a target or outside that region.
C15_TabooInsideRegion ==
    TabooCall =>
        \A c \in Marked :
            /\ c \in CallRegion
            /\ c \notin call.heap.warehouse.walls
            /\ c \notin Range(call.heap.warehouse.targets)

\* taboo_cells marked cells of a grid that has, in another room than the
\* worker's, a corner that is no target.
C15_Witness ==
    /\ TabooCall
    /\ Marked # {}
    /\ \E c \in GridCells \ CallRegion :
           /\ c \notin call.heap.warehouse.walls
           /\ Corner(call.heap.warehouse.walls, c)
           /\ c \notin Range(call.heap.warehouse.targets)

\* Some box of the game stands on a cell of the taboo set the puzzle computed.
BoxOnTaboo == \E k \in DOMAIN play.boxes : play.boxes[k] \in puzzle.taboo_cells

\* The state of the game satisfies the goal test.
GameAtGoal == goal_test(puzzle, State(play.worker, play.boxes))

\* C16: a box on a taboo cell dooms the puzzle: from every state in which some
\* box stands on a cell of the computed taboo set, no sequence of moves the
\* validator accepts reaches a state that satisfies the goal test.
C16_TabooDooms == [](BoxOnTaboo => [](~GameAtGoal))

\* Of two boxes one stands on a taboo cell and another on a target.
C16_Witness ==
    /\ BoxOnTaboo
    /\ \E k \in DOMAIN play.boxes :
           /\ play.boxes[k] \in Range(heap.warehouse.targets)
           /\ play.boxes[k] \notin puzzle.taboo_cells
    /\ \E action \in ActionLabels : Move(action).ok

\* C17: Rule 1 holds for every grid, also one whose region has zero or one
\* corner: every cell of the worker's region that has a wall next to it on the
\* x-axis and one on the y-axis and is no target is marked taboo.
C17_RuleOneEveryGrid ==
    TabooCall => \A c \in TabooCorners : c \in Marked

\* The pairs of different corners of the region that are no targets and lie on
\* one line of the grid.
AlignedCorners ==
    {p \in TabooCorners \X TabooCorners :
        p[1] # p[2] /\ (p[1][1] = p[2][1] \/ p[1][2] = p[2][2])}

\* The axis two aligned cells share: 0 for a common x, 1 for a common y.
SharedAxis(c, d) == IF c[1] = d[1] THEN 0 ELSE 1

\* The cells strictly between two aligned cells.
Span(c, d) ==
    IF c[1] = d[1]
    THEN {<<c[1], y>> : y \in (Min({c[2], d[2]}) + 1)..(Max({c[2], d[2]}) - 1)}
    ELSE {<<x, c[2]>> : x \in (Min({c[1], d[1]}) + 1)..(Max({c[1], d[1]}) - 1)}

\* The cell next to cell on the given side (-1 or 1) of a line that keeps the
\* coordinate of the given axis.
Beside(cell, axis, side) ==
    IF axis = 0 THEN <<cell[1] + side, cell[2]>> ELSE <<cell[1], cell[2] + side>>

\* One side of the line has a wall next to every cell of the span.
WallOnOneSide(c, d) ==
    \E side \in {-1, 1} :
        \A cell \in Span(c, d) :
            Beside(cell, SharedAxis(c, d), side) \in call.heap.warehouse.walls

\* Every cell of the span has a wall next to it on one side of the line or on
\* the other.
WallOnSomeSide(c, d) ==
    \A cell \in Span(c, d) :
        \E side \in {-1, 1} :
            Beside(cell, SharedAxis(c, d), side) \in call.heap.warehouse.walls

\* No cell of the span is a wall or a target.
SpanFree(c, d) ==
    \A cell \in Span(c, d) :
        /\ cell \notin call.heap.warehouse.walls
        /\ cell \notin Range(call.heap.warehouse.targets)

\* What Rule 2 gives for the pair in the grid of the call.
RuleTwo(c, d) ==
    get_taboo_cells_between(call.heap.warehouse, c, d, SharedAxis(c, d))

Rows == Split(call.ret, "\n")

\* C19: taboo_cells returns nrows rows joined by newlines, each of ncols
\* characters; the character at (x, y) is '#' iff (x, y) is a wall, 'X' iff it
\* is a taboo cell, and a space otherwise, so that the text has no mark for the
\* worker, a target or a box.
C19_TabooText ==
    TabooCall =>
        LET warehouse == call.heap.warehouse
            taboo == get_taboo_cells(warehouse,
                         get_corner_cells(warehouse,
                             get_inside_cells(warehouse, {}, warehouse.worker)))
        IN  /\ Len(Rows) = warehouse.nrows
            /\ \A j \in 1..Len(Rows) :
                   /\ Len(Rows[j]) = warehouse.ncols
                   /\ \A i \in 1..Len(Rows[j]) :
                          /\ Rows[j][i] \in {"#", "X", " "}
                          /\ Rows[j][i] = "#" <=> <<i - 1, j - 1>> \in warehouse.walls
                          /\ Rows[j][i] = "X" <=> <<i - 1, j - 1>> \in taboo

\* The text returned has an X where a box stands and a space where the worker
\* and a target are.
C19_Witness ==
    /\ TabooCall
    /\ \E k \in DOMAIN call.heap.warehouse_boxes :
           CharAt(call.ret, call.heap.warehouse_boxes[k]) = "X"
    /\ CharAt(call.ret, call.heap.warehouse.worker) = " "
    /\ \E t \in Range(call.heap.warehouse.targets) : CharAt(call.ret, t) = " "

\* C20: the taboo set depends only on the walls, the targets and the region the
\* worker is in: a grid with the same walls and targets whose worker stands
\* anywhere in the region of the loaded worker gives the taboo cells of the
\* loaded grid, whatever its boxes and weights.
C20_TabooOnlyWallsTargetsRegion ==
    (TabooCall /\ call.heap.warehouse.worker
                      \in Region(heap.warehouse.walls, heap.warehouse.worker)) =>
        call.ret = taboo_cells(heap.warehouse)

\* taboo_cells marked cells for a worker elsewhere in the region, on a taboo
\* cell, with the boxes moved and heavier.
C20_Witness ==
    /\ TabooCall
    /\ Marked # {}
    /\ call.heap.warehouse.worker \in Marked
    /\ call.heap.warehouse.worker # heap.warehouse.worker
    /\ call.heap.warehouse.worker \in Region(heap.warehouse.walls, heap.warehouse.worker)
    /\ call.heap.warehouse_boxes # heap.warehouse_boxes
    /\ call.heap.warehouse_weights # heap.warehouse_weights

---------------------------------------------------------------------------
(* The claims about the heuristic                                          *)

\* The number of moves between two cells when nothing is in the way.
Dist(c, d) ==
    (IF c[1] > d[1] THEN c[1] - d[1] ELSE d[1] - c[1])
        + (IF c[2] > d[2] THEN c[2] - d[2] ELSE d[2] - c[2])

\* The least price of bringing box k of boxes to some target: the distance to
\* a nearest target times one plus the weight of the box.
Nearest(boxes, k) ==
    CHOOSE m \in {Dist(boxes[k], t) * (1 + puzzle.weights[k]) : t \in Range(puzzle.goal.boxes)} :
        \A t \in Range(puzzle.goal.boxes) : m <= Dist(boxes[k], t) * (1 + puzzle.weights[k])

RECURSIVE Estimate(_, _)
\* The sum of Nearest over the boxes 1..n.
Estimate(boxes, n) ==
    IF n = 0 THEN 0 ELSE Estimate(boxes, n - 1) + Nearest(boxes, n)

\* C21: for every state, h is the sum over the boxes of the least, over the
\* targets, of the Manhattan distance from the box to the target times one plus
\* the weight of the box; several boxes may choose one target, and the value
\* is 0 whenever every box stands on a target.
C21_HeuristicValue ==
    call.op = "h" =>
        /\ call.ret = Estimate(call.state.boxes, Len(call.state.boxes))
        /\ (\A k \in DOMAIN call.state.boxes :
                call.state.boxes[k] \in Range(puzzle.goal.boxes)) => call.ret = 0

\* h was called where two boxes of different weight are nearest to the same
\* target and a second target is free.
C21_Witness ==
    /\ call.op = "h"
    /\ call.ret > 0
    /\ \E i, j \in DOMAIN call.state.boxes :
           /\ i # j
           /\ puzzle.weights[i] # puzzle.weights[j]
           /\ \E t \in Range(puzzle.goal.boxes) :
                  /\ Dist(call.state.boxes[i], t) * (1 + puzzle.weights[i])
                         = Nearest(call.state.boxes, i)
                  /\ Dist(call.state.boxes[j], t) * (1 + puzzle.weights[j])
                         = Nearest(call.state.boxes, j)
                  /\ \A u \in Range(puzzle.goal.boxes) \ {t} :
                         /\ Dist(call.state.boxes[i], u) > Dist(call.state.boxes[i], t)
                         /\ Dist(call.state.boxes[j], u) > Dist(call.state.boxes[j], t)

\* C22: the heuristic is a non-negative lower bound: h of a state is at least 0
\* and at most the cost, steps plus the weights pushed, of any sequence of
\* legal actions that leads from that state to a state with all targets
\* covered.
C22_HeuristicLowerBound ==
    call.op = "h" =>
        /\ call.ret >= 0
        /\ Covered(play.boxes) => call.ret <= play.cost

\* A game that started where h was positive has reached the goal by pushing.
C22_Witness ==
    /\ call.op = "h"
    /\ call.ret > 0
    /\ Covered(play.boxes)
    /\ play.boxes # call.state.boxes
    /\ play.cost = call.ret

---------------------------------------------------------------------------
(* The claims about calls made one after another                           *)

---------------------------------------------------------------------------
(* The claims about actions and result                                     *)

\* The loaded warehouse is the 7x5 grid whose walls are its border, with the
\* worker at (3,3), one box at (3,2) and one target at (1,1).
BorderGrid ==
    /\ heap.warehouse.ncols = 7
    /\ heap.warehouse.nrows = 5
    /\ heap.warehouse.walls =
           {c \in (0..6) \X (0..4) : c[1] \in {0, 6} \/ c[2] \in {0, 4}}
    /\ heap.warehouse.worker = <<3, 3>>
    /\ heap.warehouse_boxes = <<<<3, 2>>>>
    /\ heap.warehouse.targets = <<<<1, 1>>>>

\* C24: in the 7x5 grid whose walls are the border, with the worker at (3,3),
\* one box at (3,2) and one target at (1,1), Up is in actions(initial state),
\* cell (3,1) is not taboo, result gives the worker at (3,2) and the box at
\* (3,1), and path_cost adds 1 + weight[0].
C24_PushUpInBorderGrid ==
    BorderGrid =>
        /\ "Up" \in Range(actions(puzzle, puzzle.initial))
        /\ <<3, 1>> \notin puzzle.taboo_cells
        /\ node.path = <<"Up">> =>
               /\ node.state.worker = <<3, 2>>
               /\ node.state.boxes = <<<<3, 1>>>>
               /\ node.path_cost = 1 + heap.warehouse_weights[1]

\* The search has followed Up from the initial state of that grid, and the box
\* has a weight.
C24_Witness ==
    /\ BorderGrid
    /\ node.path = <<"Up">>
    /\ heap.warehouse_weights[1] > 0
    /\ puzzle.taboo_cells # {}

\* The call recorded is a call of result with an action that is not in
\* actions(state).
IllegalResultCall ==
    call.op = "result" /\ call.action \notin Range(actions(puzzle, call.state))

\* What was returned is a state: a worker and boxes.
ReturnedState == DOMAIN call.ret = {"worker", "boxes"}

Place(action) ==
    CHOOSE i \in 1..4 : <<"Left", "Right", "Up", "Down">>[i] = action

\* C26: actions(state) returns the legal directions in the fixed order Left,
\* Right, Up, Down: the list is a subsequence of (Left, Right, Up, Down)
\* without repeats.
C26_ActionsInFixedOrder ==
    call.op = "actions" =>
        /\ \A i \in DOMAIN call.ret : call.ret[i] \in {"Left", "Right", "Up", "Down"}
        /\ \A i, j \in DOMAIN call.ret : i < j => Place(call.ret[i]) < Place(call.ret[j])

\* actions returned all four directions, one of them a push.
C26_Witness ==
    /\ call.op = "actions"
    /\ call.ret = <<"Left", "Right", "Up", "Down">>
    /\ \E a \in ActionLabels : Step(call.state.worker, a) \in Range(call.state.boxes)

\* The warehouse of the loaded grid with the worker and the boxes of state.
GridOf(state) ==
    [warehouse         |-> [heap.warehouse EXCEPT !.worker = state.worker],
     warehouse_boxes   |-> state.boxes,
     warehouse_weights |-> heap.warehouse_weights]

\* check_elem_action_seq accepts the single action from the grid of state.
Accepted(state, action) ==
    check_elem_action_seq(GridOf(state), "warehouse", <<action>>).ret # Impossible

\* The action pushes a box of state onto a taboo cell.
OntoTaboo(state, action) ==
    /\ Step(state.worker, action) \in Range(state.boxes)
    /\ Step(Step(state.worker, action), action) \in puzzle.taboo_cells

\* The action pushes a box of state into a wall.
IntoWall(state, action) ==
    /\ Step(state.worker, action) \in Range(state.boxes)
    /\ Step(Step(state.worker, action), action) \in puzzle.walls

\* C27: for every state and direction, the action is in actions(state) iff
\* check_elem_action_seq accepts that single action from the grid of the state
\* and the action does not push a box onto a taboo cell; a box pushed directly
\* into a wall is rejected by both.
C27_ActionsAgreeWithValidator ==
    call.op = "actions" =>
        \A action \in ActionLabels :
            /\ action \in Range(call.ret)
                   <=> (Accepted(call.state, action) /\ ~OntoTaboo(call.state, action))
            /\ IntoWall(call.state, action) =>
                   (action \notin Range(call.ret) /\ ~Accepted(call.state, action))

\* actions was called where one direction pushes a box into a wall and another
\* pushes a box onto a taboo cell, which the validator accepts.
C27_Witness ==
    /\ call.op = "actions"
    /\ \E a \in ActionLabels : IntoWall(call.state, a)
    /\ \E a \in ActionLabels : OntoTaboo(call.state, a) /\ Accepted(call.state, a)

RECURSIVE EarlierRets(_, _)
\* What the calls up to made returned that were calls of the same function
\* with the same arguments as the call this.
EarlierRets(made, this) ==
    (IF /\ made.op = this.op
        /\ made.state = this.state
        /\ this.op = "result" => made.action = this.action
     THEN {made.ret} ELSE {})
        \cup (IF "before" \in DOMAIN made THEN EarlierRets(made.before, this) ELSE {})

---------------------------------------------------------------------------
(* The claims about the pairs of corners of Rule 2                         *)

\* The cell of a span between c and d passes the test of Rule 2: it is no wall,
\* no target, and has a wall next to it across the line.
Passes(cell, c, d) ==
    /\ cell \notin call.heap.warehouse.walls
    /\ cell \notin Range(call.heap.warehouse.targets)
    /\ \E side \in {-1, 1} :
           Beside(cell, SharedAxis(c, d), side) \in call.heap.warehouse.walls

\* C29: Rule 2 is all-or-nothing for a pair of corners: if any cell strictly
\* between the two is a wall, is a target, or has no wall next to it on the
\* axis across the line, the pair contributes no cell of its span; a pair
\* never contributes a proper non-empty part of its span.
C29_RuleTwoAllOrNothing ==
    TabooCall =>
        \A p \in AlignedCorners :
            /\ (\E cell \in Span(p[1], p[2]) : ~Passes(cell, p[1], p[2]))
                   => RuleTwo(p[1], p[2]) = {}
            /\ RuleTwo(p[1], p[2]) \in {{}, Span(p[1], p[2])}

\* taboo_cells met a pair of corners whose span begins with a cell that passes
\* and has a cell further on that fails, and another pair whose span it marked.
C29_Witness ==
    /\ TabooCall
    /\ \E p \in AlignedCorners :
           /\ \E cell \in Span(p[1], p[2]) :
                  /\ Dist(cell, p[1]) = 1
                  /\ Passes(cell, p[1], p[2])
           /\ \E cell \in Span(p[1], p[2]) : ~Passes(cell, p[1], p[2])
    /\ \E p \in AlignedCorners :
           /\ Span(p[1], p[2]) # {}
           /\ RuleTwo(p[1], p[2]) = Span(p[1], p[2])
           /\ Span(p[1], p[2]) \subseteq Marked

\* The pairs of different corners of the worker's region on one line of the
\* grid of which at least one is a target.
AlignedWithTarget ==
    LET corners == {c \in CallRegion : Corner(call.heap.warehouse.walls, c)}
    IN  {p \in corners \X corners :
            /\ p[1] # p[2]
            /\ p[1][1] = p[2][1] \/ p[1][2] = p[2][2]
            /\ \/ p[1] \in Range(call.heap.warehouse.targets)
               \/ p[2] \in Range(call.heap.warehouse.targets)}

\* C30: a pair of aligned corners contributes cells of Rule 2 only when both
\* corners are no targets: every marked cell that is no corner lies between
\* two aligned corners that are both no targets and whose span Rule 2 marks,
\* so that the cells between a pair with a target corner stay unmarked by that
\* pair even if every one of them lies along a wall.
C30_RuleTwoNeedsTabooCorners ==
    TabooCall =>
        \A cell \in Marked \ TabooCorners :
            \E p \in AlignedCorners :
                /\ cell \in Span(p[1], p[2])
                /\ RuleTwo(p[1], p[2]) = Span(p[1], p[2])

\* taboo_cells left unmarked the span of a pair with a target corner all of
\* whose cells pass the test of Rule 2, and marked the span of another pair.
C30_Witness ==
    /\ TabooCall
    /\ \E p \in AlignedWithTarget :
           /\ Span(p[1], p[2]) # {}
           /\ \A cell \in Span(p[1], p[2]) : Passes(cell, p[1], p[2])
           /\ Span(p[1], p[2]) \cap Marked = {}
    /\ Marked \ TabooCorners # {}

\* C31: every cell of the taboo set is a corner of the worker's region that is
\* no target, or lies strictly between two such corners that share a row or a
\* column, every cell between them being no wall, no target and having a wall
\* next to it across the line; pairs that are not aligned or are adjacent add
\* nothing.
C31_TabooCellsJustified ==
    TabooCall =>
        \A cell \in Marked :
            \/ /\ cell \in CallRegion
               /\ Corner(call.heap.warehouse.walls, cell)
               /\ cell \notin Range(call.heap.warehouse.targets)
            \/ \E p \in AlignedCorners :
                   /\ cell \in Span(p[1], p[2])
                   /\ \A between \in Span(p[1], p[2]) : Passes(between, p[1], p[2])

\* taboo_cells marked a corner and a cell between two corners in a grid that
\* has two marked corners next to each other and two marked corners on no
\* common line.
C31_Witness ==
    /\ TabooCall
    /\ Marked \cap TabooCorners # {}
    /\ Marked \ TabooCorners # {}
    /\ \E c, d \in Marked \cap TabooCorners : Dist(c, d) = 1
    /\ \E c, d \in Marked \cap TabooCorners : c[1] # d[1] /\ c[2] # d[2]

---------------------------------------------------------------------------
(* The claims about the flood fill                                         *)

\* A call of get_inside_cells is under way or has returned.
Filling == call.op = "get_inside_cells"

\* The outermost call of get_inside_cells has returned.
Filled == call.op = "get_inside_cells" /\ call.stack = <<>>

\* What holds of the flood fill at every moment of a call.
FillSafe ==
    Filling =>
        LET walls  == call.warehouse.walls
            region == Region(walls, call.warehouse.worker)
        IN  /\ ~call.raised
            /\ \A i, j \in DOMAIN call.adds : i # j => call.adds[i] # call.adds[j]
            /\ Range(call.adds) = call.inside_cells
            /\ call.inside_cells \cap walls = {}
            /\ call.inside_cells \subseteq region
            /\ Filled =>
                   /\ call.inside_cells = region
                   /\ call.inside_cells
                          = get_inside_cells(call.warehouse, {}, call.warehouse.worker)

\* C32: the flood fill terminates for every grid whose region around the
\* worker is enclosed by walls: it adds each reachable cell once, never enters
\* a cell that is in the set already, stops at walls, and returns exactly the
\* cells that are no walls and 4-connected to the worker, boxes ignored.
C32_FloodFillTerminates == [](FillSafe) /\ (Filling ~> Filled)

\* A flood fill has returned a region of ten cells or more with a box in it.
C32_Witness ==
    /\ Filled
    /\ Cardinality(call.inside_cells) >= 10
    /\ Range(heap.warehouse_boxes) \cap call.inside_cells # {}
    /\ Len(call.adds) = Cardinality(call.inside_cells)

---------------------------------------------------------------------------
(* The claims about the states that are reached                            *)

\* C33: in every state reached from the initial state by actions taken from
\* actions(state) and applied with result, the cell of the worker is in the set
\* the flood fill computes from the worker's initial cell.
C33_WorkerStaysInside ==
    play.worker \in get_inside_cells(heap.warehouse, {}, heap.warehouse.worker)

\* The worker stands three cells or more from where it began, behind a box it
\* has pushed.
C33_Witness ==
    /\ Dist(play.worker, heap.warehouse.worker) >= 3
    /\ play.boxes # heap.warehouse_boxes
    /\ \E a \in ActionLabels : Step(play.worker, a) \in Range(play.boxes)

\* C34: in every state reached from a well-formed grid (boxes on pairwise
\* different cells, no box and no worker on a wall, the worker on no box) by
\* legal actions, and after every step check_elem_action_seq accepts, the
\* worker is on no wall and on no box, the boxes are on pairwise different
\* cells, no box is on a wall, and there are as many boxes as at the start.
C34_GridStaysWellFormed ==
    /\ play.worker \notin heap.warehouse.walls
    /\ \A k \in DOMAIN play.boxes : play.boxes[k] # play.worker
    /\ \A i, j \in DOMAIN play.boxes : i # j => play.boxes[i] # play.boxes[j]
    /\ \A k \in DOMAIN play.boxes : play.boxes[k] \notin heap.warehouse.walls
    /\ Len(play.boxes) = Len(heap.warehouse_boxes)

\* Of two boxes on a grid one can be pushed by an action of actions(state) and
\* the other only by an action the validator accepts, onto a taboo cell.
C34_Witness ==
    /\ Len(play.boxes) = 2
    /\ \E a \in Range(actions(puzzle, PlayState)) :
           Step(play.worker, a) \in Range(play.boxes)
    /\ \E a \in ActionLabels :
           /\ a \notin Range(actions(puzzle, PlayState))
           /\ Move(a).ok
           /\ Step(play.worker, a) \in Range(play.boxes)

\* C35: the search never pushes a box onto a taboo cell: a step of the search
\* that moves a box moves it to a cell that is not taboo, so a box standing on
\* a taboo cell stands on its initial cell and has not been moved.
C35_NoPushOntoTaboo ==
    [][\A k \in DOMAIN play.boxes :
          /\ play.boxes'[k] # play.boxes[k] =>
                 play.boxes'[k] \notin puzzle.taboo_cells
          /\ play.boxes'[k] \in puzzle.taboo_cells =>
                 /\ play.boxes[k] = heap.warehouse_boxes[k]
                 /\ play.boxes'[k] = heap.warehouse_boxes[k]]_vars

\* A box starts on a taboo cell and is still there after the worker has
\* walked to another cell next to it, from where a push would move it along
\* the taboo cells.
C35_Witness ==
    /\ \E k \in DOMAIN play.boxes :
           /\ play.boxes[k] \in puzzle.taboo_cells
           /\ play.boxes[k] = heap.warehouse_boxes[k]
           /\ \E a \in ActionLabels :
                  /\ Step(play.worker, a) = play.boxes[k]
                  /\ Step(play.boxes[k], a) \in puzzle.taboo_cells
                  /\ Step(play.boxes[k], a) \notin Range(play.boxes)
                  /\ a \notin Range(actions(puzzle, PlayState))
    /\ play.worker # heap.warehouse.worker

---------------------------------------------------------------------------
(* The claims about the estimate along a step                              *)

\* The estimate h gives for a state.
HOf(state) == h(puzzle, RootNode(state))

\* The boxes a step from state1 to state2 has moved.
MovedBoxes(state1, state2) ==
    {k \in DOMAIN state1.boxes : state1.boxes[k] # state2.boxes[k]}

\* C36: the heuristic is consistent: for a state s, an action a of actions(s)
\* and s' = result(s, a), h(s) is at most the cost of the step,
\* path_cost(c, s, a, s') - c, plus h(s'); a step that pushes no box leaves h
\* unchanged, and a step that pushes box i changes h by at most 1 + weight[i].
C36_HeuristicConsistent ==
    call.op = "path_cost" =>
        LET before == HOf(call.state1)
            after  == HOf(call.state2)
            moved  == MovedBoxes(call.state1, call.state2)
        IN  /\ before <= (call.ret - call.c) + after
            /\ moved = {} => after = before
            /\ \A i \in moved : Abs(after - before) <= 1 + puzzle.weights[i]

\* The second, heavier box of two is pushed one cell closer to its nearest
\* target on a path that has cost something already: the estimate drops by
\* exactly the cost of the step.
C36_Witness ==
    /\ call.op = "path_cost"
    /\ call.c > 0
    /\ MovedBoxes(call.state1, call.state2) = {2}
    /\ puzzle.weights[2] > puzzle.weights[1]
    /\ HOf(call.state1) = (call.ret - call.c) + HOf(call.state2)
    /\ HOf(call.state2) > 0

---------------------------------------------------------------------------
(* The claims about the end of the search                                  *)

\* The search has stopped at a goal state or with an exhausted frontier.
Stopped ==
    \/ node = None /\ frontier = {}
    \/ node # None /\ goal_test(puzzle, node.state)

\* A turn of the loop that does not stop the search expands a state that was
\* not expanded before.
ExpandsNewState ==
    (pc = "search" /\ pc' = "search") =>
        /\ explored \subseteq explored'
        /\ explored' # explored

\* C37: on a well-formed grid whose worker region is enclosed by walls the
\* states reached from the initial state by legal actions are finitely many
\* (the expanded states are positions of the worker and the boxes on the
\* floor cells, and every turn of the loop that goes on expands a new one),
\* so the graph search stops, at a goal state or with an exhausted frontier,
\* and solve_weighted_sokoban returns.
C37_SearchStops ==
    /\ [](explored \subseteq TestStates)
    /\ [][ExpandsNewState]_vars
    /\ [](pc \in {"found", "done"} => Stopped)
    /\ <>(pc = "done" /\ call.op = "solve_weighted_sokoban")

\* The search has expanded several states, exhausted its frontier without a
\* goal state and solve_weighted_sokoban has returned 'Impossible'.
C37_Witness ==
    /\ pc = "done"
    /\ node = None
    /\ frontier = {}
    /\ Cardinality(explored) >= 3
    /\ call.op = "solve_weighted_sokoban"
    /\ call.ret = <<Impossible, None>>

====
